---- MODULE Spec2Model ----
(***************************************************************************)
(* Model of the content aggregation service: NewService, the HTTP handler  *)
(* (Handler.GetContent, validateContentReq, getIntParam), and              *)
(* Service.GetContent with its two-round coordinator getConfigResponses    *)
(* and the fetch goroutines started by getPromiseForProvider.              *)
(*                                                                         *)
(* One behaviour is: construct a service, serve one HTTP request.          *)
(* The coordinator's code between two blocking points (a select) is local  *)
(* computation plus goroutine starts, and is taken as one step.            *)
(***************************************************************************)
EXTENDS Integers, Sequences, FiniteSets, TLC

\* ------------------------------------------------------------------ bounds
MaxConfigs == 2     \* longest configuration list tried
MaxCount == 2       \* largest valid count parameter tried
MaxOffset == 2      \* largest offset parameter tried
NumProviders == 2   \* number of provider identifiers

\* ------------------------------------------------------------ data model
Provider1 == "1"
Provider2 == "2"
Provider3 == "3"
AllProviders == <<Provider1, Provider2, Provider3>>
Providers == {AllProviders[k] : k \in 1..NumProviders}

\* ContentConfig.Fallback is a *Provider; NoFallback is the nil pointer.
NoFallback == "nil"
ContentConfig == [Type : Providers, Fallback : Providers \cup {NoFallback}]

\* The provider registries tried: a full one, and one lacking the last provider.
ClientSets == {Providers, Providers \ {AllProviders[NumProviders]}}

\* The k-th item a provider returns; Source is the provider's own identity.
Item(p, k) == [Source |-> p, ID |-> k]
\* A nil *ContentItem (the zero value of a slice element).
NilItem == [Source |-> "nil", ID |-> 0]

NoErr == "nil"
ErrProvider == "test error"
ErrNotEnough == "not enough items"
\* configResponse{item, err}
ItemResponse(it) == [item |-> it, err |-> NoErr]
ErrResponse(e) == [item |-> NilItem, err |-> e]

\* What one client.GetContent(userIP, n) call can do:
\*   "ok"       n items;            "extra"    n+1 items;
\*   "fail"     an error;           "short"    n-1 items, capacity below n;
\*   "shortcap" n-1 items in a slice whose capacity is at least n.
CallOutcomes == {"ok", "extra", "fail", "short", "shortcap"}

RECURSIVE SeqSets(_, _)
SeqSets(S, n) ==
    IF n = 0 THEN {<<>>}
    ELSE LET shorter == SeqSets(S, n - 1)
         IN  shorter \cup {Append(s, x) : s \in {t \in shorter : Len(t) = n - 1}, x \in S}

ConfigLists == SeqSets(ContentConfig, MaxConfigs)

\* ---------------------------------------------------------- query strings
Digit(n) == <<"0", "1", "2", "3", "4", "5", "6", "7", "8", "9">>[n + 1]
DigitValue(c) == CHOOSE n \in 0..9 : Digit(n) = c
IsDigit(c) == \E n \in 0..9 : Digit(n) = c

\* Raw values of a query parameter: absent, not a number, negative, and the
\* decimal strings of 0..max.
QueryValues(max) ==
    {<<>>, <<"a">>, <<"-", "1">>} \cup {<<Digit(n)>> : n \in 0..max}

\* strconv.ParseInt(s, 10, 64) on a character sequence: an optional sign and
\* then at least one decimal digit, nothing else.
RECURSIVE ParseDigits(_, _)
ParseDigits(s, acc) ==
    IF s = <<>> THEN [ok |-> TRUE, v |-> acc]
    ELSE IF ~IsDigit(Head(s)) THEN [ok |-> FALSE, v |-> 0]
    ELSE ParseDigits(Tail(s), 10 * acc + DigitValue(Head(s)))

ParseInt(s) ==
    LET signed == s # <<>> /\ Head(s) \in {"+", "-"}
        digits == IF signed THEN Tail(s) ELSE s
        r == ParseDigits(digits, 0)
    IN  IF digits = <<>> \/ ~r.ok THEN [ok |-> FALSE, v |-> 0]
        ELSE [ok |-> TRUE, v |-> IF signed /\ Head(s) = "-" THEN 0 - r.v ELSE r.v]

\* (mutant) getIntParam without the `v <= 0 && !allowZero` case
getIntParamNoZeroCheck(s, required, allowZero) ==
    IF s = <<>>
    THEN IF required THEN [v |-> 0, err |-> "is empty"] ELSE [v |-> 0, err |-> NoErr]
    ELSE LET r == ParseInt(s)
         IN  IF ~r.ok THEN [v |-> 0, err |-> "must be an integer"]
             ELSE IF r.v < 0 THEN [v |-> 0, err |-> "must be positive"]
             ELSE [v |-> r.v, err |-> NoErr]

\* Handler.getIntParam: s is req.URL.Query().Get(name), <<>> when absent.
getIntParam(s, required, allowZero) ==
    IF s = <<>>
    THEN IF required THEN [v |-> 0, err |-> "is empty"] ELSE [v |-> 0, err |-> NoErr]
    ELSE LET r == ParseInt(s)
         IN  IF ~r.ok THEN [v |-> 0, err |-> "must be an integer"]
             ELSE IF r.v <= 0 /\ ~allowZero
                  THEN [v |-> 0, err |-> "must be positive or zero"]
             ELSE IF r.v < 0 THEN [v |-> 0, err |-> "must be positive"]
             ELSE [v |-> r.v, err |-> NoErr]

\* Handler.validateContentReq
validateContentReq(q) ==
    LET c == getIntParam(q.count, TRUE, FALSE)
        o == getIntParam(q.offset, FALSE, TRUE)
    IN  IF c.err # NoErr THEN [count |-> 0, offset |-> 0, err |-> "invalid count parameter"]
        ELSE IF o.err # NoErr
             THEN [count |-> 0, offset |-> 0, err |-> "invalid offset parameter"]
        ELSE [count |-> c.v, offset |-> o.v, err |-> NoErr]

\* ------------------------------------------------------------------ state
VARIABLES
    clients,          \* Service.clients: the registered providers
    contentConfigs,   \* Service.contentConfigs
    svc,              \* outcome of NewService: "none", "ok" or "error"
    query,            \* the request's raw count and offset parameters
    count, offset,    \* the parameters Service.GetContent was called with
    pc,               \* the request goroutine: "idle", "wait1", "wait2",
                      \*   "done", or "panicked"
    slot,             \* index i of the select the coordinator is blocked in
    ctxDone,          \* the request context's Done channel is closed
    responses,        \* getConfigResponses' responses slice
    task,             \* task[r][p]: the round-r fetch goroutine of provider p
                      \*   with its out channel
    launched,         \* launched[r][p]: getPromiseForProvider calls in round r
    calls,            \* calls[p]: client.GetContent invocations (mock's calls)
    result,           \* what Service.GetContent returned
    httpStatus,       \* status written to the client, 0 while none is
    crashed           \* the process died from a panic in a fetch goroutine

vars == <<clients, contentConfigs, svc, query, count, offset, pc, slot, ctxDone,
          responses, task, launched, calls, result, httpStatus, crashed>>

Rounds == {1, 2}

NoTask == [st |-> "none", demand |-> 0, ret |-> "none", pending |-> <<>>, buf |-> <<>>]
NoResult == [kind |-> "none", items |-> <<>>]
\* responses[i] before the first pass has written it (a nil pointer)
NoResponse == [item |-> NilItem, err |-> "unset"]

Init ==
    /\ clients = {}
    /\ contentConfigs = <<>>
    /\ svc = "none"
    /\ query = [count |-> <<>>, offset |-> <<>>]
    /\ count = 0
    /\ offset = 0
    /\ pc = "idle"
    /\ slot = 0
    /\ ctxDone = FALSE
    /\ responses = <<>>
    /\ task = [r \in Rounds |-> [p \in Providers |-> NoTask]]
    /\ launched = [r \in Rounds |-> [p \in Providers |-> 0]]
    /\ calls = [p \in Providers |-> 0]
    /\ result = NoResult
    /\ httpStatus = 0
    /\ crashed = FALSE

\* ------------------------------------------------------------- NewService
\* The check NewService makes of configs against the registry.
NewServiceAccepts(configs, cl) ==
    \A k \in DOMAIN configs : configs[k].Type \in cl

NewService(configs, cl) ==
    /\ svc = "none"
    /\ IF NewServiceAccepts(configs, cl)
       THEN /\ svc' = "ok"
            /\ clients' = cl
            /\ contentConfigs' = configs
       ELSE /\ svc' = "error"
            /\ UNCHANGED <<clients, contentConfigs>>
    /\ UNCHANGED <<query, count, offset, pc, slot, ctxDone, responses, task,
                   launched, calls, result, httpStatus, crashed>>

\* ------------------------------------------------- pure parts of Service
\* (mutant) prepareConfigsForRequest expanding only the requested window
prepareConfigsForWindow(c, o) ==
    [i \in 1..c |-> contentConfigs[((o + i - 1) % Len(contentConfigs)) + 1]]

\* Service.prepareConfigsForRequest (only called with a non-empty
\* contentConfigs here: i % 0 panics, see HandlerGetContent).
prepareConfigsForRequest(c, o) ==
    [i \in 1..(c + o) |-> contentConfigs[((i - 1) % Len(contentConfigs)) + 1]]

\* (mutant) a primary tally that asks every provider in use for one item per slot
providerCountsPerSlot(cfgs) ==
    [p \in Providers |->
        IF \E i \in DOMAIN cfgs : cfgs[i].Type = p THEN Len(cfgs) ELSE 0]

\* getConfigResponses, primary tally: providerCounts[cfg.Type]++ over all slots.
providerCounts(cfgs) ==
    [p \in Providers |-> Cardinality({i \in DOMAIN cfgs : cfgs[i].Type = p})]

\* getConfigResponses, fallback tally: the scan over the slots from index i on,
\* skipping the slots without error and stopping at the first failed slot
\* that has no fallback.
RECURSIVE FallbackScan(_, _, _, _)
FallbackScan(cfgs, resp, i, acc) ==
    IF i > Len(cfgs) THEN acc
    ELSE IF resp[i].err = NoErr THEN FallbackScan(cfgs, resp, i + 1, acc)
    ELSE IF cfgs[i].Fallback = NoFallback THEN acc
    ELSE FallbackScan(cfgs, resp, i + 1,
                      [acc EXCEPT ![cfgs[i].Fallback] = @ + 1])

\* (mutant) the fallback tally without the `responses[i].err == nil` skip
fallbackCountsNoSkip(cfgs, resp) ==
    [p \in Providers |-> Cardinality({i \in DOMAIN cfgs : cfgs[i].Fallback = p})]

\* (mutant) a fallback tally that leaves out the providers fetched in round 1
fallbackCountsUnusedOnly(cfgs, resp) ==
    [p \in Providers |->
        IF providerCounts(cfgs)[p] > 0 THEN 0
        ELSE FallbackScan(cfgs, resp, 1, [q \in Providers |-> 0])[p]]

fallbackProviderCounts(cfgs, resp) ==
    FallbackScan(cfgs, resp, 1, [p \in Providers |-> 0])

\* (mutant) a fill loop that waits for the fallback of every slot that has one
RECURSIVE NextFallbackSlotAny(_, _, _)
NextFallbackSlotAny(cfgs, resp, i) ==
    IF i > Len(cfgs) THEN 0
    ELSE IF cfgs[i].Fallback = NoFallback THEN NextFallbackSlotAny(cfgs, resp, i + 1)
    ELSE i

\* getConfigResponses, fallback fill loop: the index of the next select at or
\* after slot i, or 0 when the loop ends (no slot left, or the break).
RECURSIVE NextFallbackSlot(_, _, _)
NextFallbackSlot(cfgs, resp, i) ==
    IF i > Len(cfgs) THEN 0
    ELSE IF resp[i].err = NoErr THEN NextFallbackSlot(cfgs, resp, i + 1)
    ELSE IF cfgs[i].Fallback = NoFallback THEN 0
    ELSE i

\* (mutant) the loop over responses with `continue` in place of `break`
CollectItemsSkipping(resp, i) ==
    LET good == SelectSeq(SubSeq(resp, i, Len(resp)), LAMBDA v : v.err = NoErr)
    IN  [k \in 1..Len(good) |-> good[k].item]

\* Service.GetContent, the loop over responses: the items before the first error.
RECURSIVE CollectItems(_, _)
CollectItems(resp, i) ==
    IF i > Len(resp) \/ resp[i].err # NoErr THEN <<>>
    ELSE <<resp[i].item>> \o CollectItems(resp, i + 1)

\* (mutant) the offset window cut from the wrong end: items[:len(items)-offset]
OffsetWindowHead(items, o) ==
    IF o >= Len(items) THEN <<>> ELSE SubSeq(items, 1, Len(items) - o)

\* (mutant) the offset window without the `offset >= len(items)` case
OffsetWindowClamped(items, o) ==
    IF o >= Len(items) THEN items ELSE SubSeq(items, o + 1, Len(items))

\* Service.GetContent, the offset window: nil when offset >= len(items).
OffsetWindow(items, o) ==
    IF o >= Len(items) THEN <<>> ELSE SubSeq(items, o + 1, Len(items))

\* (mutant) an assembler that drops the failed slots and keeps what follows
AssembleSparse(resp, o) ==
    LET good == SelectSeq(resp, LAMBDA v : v.err = NoErr)
    IN  OffsetWindow([k \in 1..Len(good) |-> good[k].item], o)

Assemble(resp, o) == OffsetWindow(CollectItems(resp, 1), o)

\* ------------------------------------------------- getPromiseForProvider
\* The goroutine just started, with its out channel of capacity n.
Spawn(n) == [st |-> "spawned", demand |-> n, ret |-> "none",
             pending |-> <<>>, buf |-> <<>>]

\* The loop `for provider, count := range counts { getPromiseForProvider }`
\* of round r, from goroutines t and launch counters l. getPromiseForProvider
\* panics for a provider without client; Go ranges over a map in no fixed
\* order, so any set L of the other providers may have been started before.
Dispatches(r, counts, t, l) ==
    LET keys == {p \in Providers : counts[p] > 0}
        Started(L) ==
            [panic |-> L # keys,
             task |-> [t EXCEPT ![r] = [p \in Providers |->
                          IF p \in L THEN Spawn(counts[p]) ELSE @[p]]],
             launched |-> [l EXCEPT ![r] = [p \in Providers |->
                          IF p \in L THEN @[p] + 1 ELSE @[p]]]]
    IN  IF keys \subseteq clients THEN {Started(keys)}
        ELSE {Started(L) : L \in SUBSET (keys \cap clients)}

\* client.GetContent(userIP, n) of provider p with outcome out: the items
\* returned and the capacity of the returned slice.
ProviderItems(p, out, n) ==
    LET len == CASE out = "ok" -> n
                 [] out = "extra" -> n + 1
                 [] out \in {"short", "shortcap"} -> n - 1
                 [] OTHER -> 0
    IN  [k \in 1..len |-> Item(p, k)]

ProviderCap(out, n) ==
    CASE out = "ok" -> n
      [] out = "extra" -> n + 1
      [] out = "short" -> n - 1
      [] out = "shortcap" -> n
      [] OTHER -> 0

\* (mutant) no cut at all: every returned item is sent
SliceToAll(items, cap, n) ==
    IF n > cap THEN [panic |-> TRUE, items |-> <<>>]
    ELSE [panic |-> FALSE,
          items |-> IF Len(items) >= n THEN items
                    ELSE [k \in 1..n |-> IF k <= Len(items) THEN items[k] ELSE NilItem]]

\* (mutant) the slice cut from the wrong end: items[len(items)-n:]
SliceToTail(items, cap, n) ==
    IF n > cap THEN [panic |-> TRUE, items |-> <<>>]
    ELSE [panic |-> FALSE,
          items |-> IF Len(items) >= n THEN SubSeq(items, Len(items) - n + 1, Len(items))
                    ELSE [k \in 1..n |-> IF k <= Len(items) THEN items[k] ELSE NilItem]]

\* items = items[:n] on a slice of capacity cap: a run-time panic when
\* n > cap, else the first n elements of the backing array (nil beyond len).
SliceTo(items, cap, n) ==
    IF n > cap THEN [panic |-> TRUE, items |-> <<>>]
    ELSE [panic |-> FALSE,
          items |-> [k \in 1..n |-> IF k <= Len(items) THEN items[k] ELSE NilItem]]

\* ------------------------------------------------------- channel receive
\* `v, ok := <-ch` can proceed: a buffered value, or the channel is closed.
ChanReady(ch) == ch.buf # <<>> \/ ch.st = "closed"
\* what the select's receive case stores in responses[i]
ChanValue(ch) == IF ch.buf # <<>> THEN Head(ch.buf) ELSE ErrResponse(ErrNotEnough)
ChanAfter(ch) == IF ch.buf # <<>> THEN [ch EXCEPT !.buf = Tail(@)] ELSE ch
\* (mutant) the assignment lost
StoreNothing(resp, i, v) == resp
\* `responses[i] = v`
Store(resp, i, v) == [resp EXCEPT ![i] = v]

\* --------------------------------------------------- request goroutine
\* Service.GetContent returns res; Handler.GetContent writes the status.
Return(res, status) ==
    /\ result' = res
    /\ httpStatus' = status
    /\ pc' = "done"
    /\ slot' = 0

\* A panic in the request goroutine: net/http recovers it and drops the
\* connection; no status is written.
Panic ==
    /\ result' = [kind |-> "panic", items |-> <<>>]
    /\ httpStatus' = 0
    /\ pc' = "panicked"
    /\ slot' = 0

\* Service.GetContent after getConfigResponses returned resp without error.
ReturnItems(resp) ==
    Return([kind |-> "ok", items |-> Assemble(resp, offset)], 200)

\* getConfigResponses from the end of the first pass (resp is complete, t are
\* the goroutines) up to the first select of the second pass or the return.
SecondPass(cfgs, resp, t) ==
    LET fc == fallbackProviderCounts(cfgs, resp)
    IN  IF \A p \in Providers : fc[p] = 0
        THEN /\ ReturnItems(resp)
             /\ task' = t
             /\ UNCHANGED launched
        ELSE \E d \in Dispatches(2, fc, t, launched) :
                /\ task' = d.task
                /\ launched' = d.launched
                /\ IF d.panic THEN Panic
                   ELSE /\ pc' = "wait2"
                        /\ slot' = NextFallbackSlot(cfgs, resp, 1)
                        /\ UNCHANGED <<result, httpStatus>>

\* Service.GetContent(ctx, ip, c, o) up to the first select of the first pass.
ServiceGetContent(c, o) ==
    /\ count' = c
    /\ offset' = o
    /\ IF c <= 0 \/ o < 0
       THEN /\ Return([kind |-> "invalid", items |-> <<>>], 500)
            /\ UNCHANGED <<responses, task, launched>>
       ELSE IF Len(contentConfigs) = 0
       THEN \* i % len(s.contentConfigs): integer divide by zero
            /\ Panic
            /\ UNCHANGED <<responses, task, launched>>
       ELSE LET cfgs == prepareConfigsForRequest(c, o)
            IN  \E d \in Dispatches(1, providerCounts(cfgs), task, launched) :
                   /\ task' = d.task
                   /\ launched' = d.launched
                   /\ responses' = [i \in 1..Len(cfgs) |-> NoResponse]
                   /\ IF d.panic THEN Panic
                      ELSE /\ pc' = "wait1"
                           /\ slot' = 1
                           /\ UNCHANGED <<result, httpStatus>>

\* Handler.GetContent for GET /?count=qc&offset=qo.
HandlerGetContent(qc, qo) ==
    /\ svc = "ok"
    /\ pc = "idle"
    /\ ~crashed
    /\ query' = [count |-> qc, offset |-> qo]
    /\ LET v == validateContentReq([count |-> qc, offset |-> qo])
       IN  IF v.err # NoErr
           THEN /\ Return(NoResult, 400)
                /\ UNCHANGED <<count, offset, responses, task, launched>>
           ELSE ServiceGetContent(v.count, v.offset)
    /\ UNCHANGED <<clients, contentConfigs, svc, ctxDone, calls, crashed>>

\* (mutant) the first pass taking the slot results in completion order: slot i
\* gets the next result of whichever provider has one ready
Round1ReceiveAny ==
    /\ pc = "wait1"
    /\ ~crashed
    /\ LET cfgs == prepareConfigsForRequest(count, offset)
       IN  \E p \in Providers :
              LET ch == task[1][p]
              IN  /\ task[1][p].st # "none"
                  /\ ChanReady(ch)
                  /\ LET resp == Store(responses, slot, ChanValue(ch))
                         t == [task EXCEPT ![1][p] = ChanAfter(ch)]
                     IN  /\ responses' = resp
                         /\ IF slot < Len(cfgs)
                            THEN /\ slot' = slot + 1
                                 /\ task' = t
                                 /\ UNCHANGED <<pc, result, httpStatus, launched>>
                            ELSE SecondPass(cfgs, resp, t)
    /\ UNCHANGED <<clients, contentConfigs, svc, query, count, offset, ctxDone,
                   calls, crashed>>

\* First pass, `case v, ok := <-responsePromises[cfg.Type]` of slot i.
Round1Receive ==
    /\ pc = "wait1"
    /\ ~crashed
    /\ LET cfgs == prepareConfigsForRequest(count, offset)
           p == cfgs[slot].Type
           ch == task[1][p]
       IN  /\ ChanReady(ch)
           /\ LET resp == Store(responses, slot, ChanValue(ch))
                  t == [task EXCEPT ![1][p] = ChanAfter(ch)]
              IN  /\ responses' = resp
                  /\ IF slot < Len(cfgs)
                     THEN /\ slot' = slot + 1
                          /\ task' = t
                          /\ UNCHANGED <<pc, result, httpStatus, launched>>
                     ELSE SecondPass(cfgs, resp, t)
    /\ UNCHANGED <<clients, contentConfigs, svc, query, count, offset, ctxDone,
                   calls, crashed>>

\* Second pass, `case v, ok := <-responsePromises[provider]` of slot i.
Round2Receive ==
    /\ pc = "wait2"
    /\ ~crashed
    /\ LET cfgs == prepareConfigsForRequest(count, offset)
           p == cfgs[slot].Fallback
           ch == task[2][p]
       IN  /\ ChanReady(ch)
           /\ LET resp == Store(responses, slot, ChanValue(ch))
                  nxt == NextFallbackSlot(cfgs, resp, slot + 1)
              IN  /\ responses' = resp
                  /\ task' = [task EXCEPT ![2][p] = ChanAfter(ch)]
                  /\ IF nxt # 0
                     THEN /\ slot' = nxt
                          /\ UNCHANGED <<pc, result, httpStatus>>
                     ELSE ReturnItems(resp)
    /\ UNCHANGED <<clients, contentConfigs, svc, query, count, offset, ctxDone,
                   launched, calls, crashed>>

\* (mutant) the first pass answering a fired deadline with what it has so far
Round1TimeoutPartial ==
    /\ pc = "wait1"
    /\ ~crashed
    /\ ctxDone
    /\ Return([kind |-> "ok", items |-> Assemble(responses, offset)], 200)
    /\ UNCHANGED <<clients, contentConfigs, svc, query, count, offset, ctxDone,
                   responses, task, launched, calls, crashed>>

\* (mutant) a first-pass select without the ctx.Done case
Round1NoDoneCase ==
    /\ FALSE
    /\ UNCHANGED vars

\* `case <-ctx.Done(): return nil, ctx.Err()` of the first pass.
Round1Timeout ==
    /\ pc = "wait1"
    /\ ~crashed
    /\ ctxDone
    /\ Return([kind |-> "timeout", items |-> <<>>], 500)
    /\ UNCHANGED <<clients, contentConfigs, svc, query, count, offset, ctxDone,
                   responses, task, launched, calls, crashed>>

\* `case <-ctx.Done(): return nil, ctx.Err()` of the second pass.
Round2Timeout ==
    /\ pc = "wait2"
    /\ ~crashed
    /\ ctxDone
    /\ Return([kind |-> "timeout", items |-> <<>>], 500)
    /\ UNCHANGED <<clients, contentConfigs, svc, query, count, offset, ctxDone,
                   responses, task, launched, calls, crashed>>

\* The deadline of context.WithTimeout(ctx, s.timeout) passes (or the
\* caller's context is cancelled) while the request is being served.
DeadlineFires ==
    /\ pc \in {"wait1", "wait2"}
    /\ ~crashed
    /\ ~ctxDone
    /\ ctxDone' = TRUE
    /\ UNCHANGED <<clients, contentConfigs, svc, query, count, offset, pc, slot,
                   responses, task, launched, calls, result, httpStatus, crashed>>

\* ------------------------------------------------------ fetch goroutines
\* client.GetContent(userIP, count) returns in the round-r goroutine of p,
\* with outcome out; on success the goroutine slices items[:count].
ProviderCall(r, p, out) ==
    /\ ~crashed
    /\ task[r][p].st = "spawned"
    /\ calls' = [calls EXCEPT ![p] = @ + 1]
    /\ LET n == task[r][p].demand
           cut == SliceTo(ProviderItems(p, out, n), ProviderCap(out, n), n)
       IN  IF out = "fail"
           THEN /\ task' = [task EXCEPT ![r][p].st = "sending",
                                        ![r][p].ret = out,
                                        ![r][p].pending = <<ErrResponse(ErrProvider)>>]
                /\ UNCHANGED crashed
           ELSE IF cut.panic
           THEN /\ task' = [task EXCEPT ![r][p].st = "panicked", ![r][p].ret = out]
                /\ crashed' = TRUE
           ELSE /\ task' = [task EXCEPT ![r][p].st = "sending",
                                        ![r][p].ret = out,
                                        ![r][p].pending =
                                            [k \in 1..Len(cut.items) |->
                                                ItemResponse(cut.items[k])]]
                /\ UNCHANGED crashed
    /\ UNCHANGED <<clients, contentConfigs, svc, query, count, offset, pc, slot,
                   ctxDone, responses, launched, result, httpStatus>>

\* `out <- &configResponse{...}`: blocks while the buffer (capacity count) is full.
Send(r, p) ==
    /\ ~crashed
    /\ task[r][p].st = "sending"
    /\ task[r][p].pending # <<>>
    /\ Len(task[r][p].buf) < task[r][p].demand
    /\ task' = [task EXCEPT ![r][p].buf = Append(@, Head(task[r][p].pending)),
                            ![r][p].pending = Tail(@)]
    /\ UNCHANGED <<clients, contentConfigs, svc, query, count, offset, pc, slot,
                   ctxDone, responses, launched, calls, result, httpStatus, crashed>>

\* `defer close(out)` when the goroutine returns.
Close(r, p) ==
    /\ ~crashed
    /\ task[r][p].st = "sending"
    /\ task[r][p].pending = <<>>
    /\ task' = [task EXCEPT ![r][p].st = "closed"]
    /\ UNCHANGED <<clients, contentConfigs, svc, query, count, offset, pc, slot,
                   ctxDone, responses, launched, calls, result, httpStatus, crashed>>

\* ------------------------------------------------------- specification
Next ==
    \/ \E configs \in ConfigLists, cl \in ClientSets : NewService(configs, cl)
    \/ \E qc \in QueryValues(MaxCount), qo \in QueryValues(MaxOffset) :
          HandlerGetContent(qc, qo)
    \/ Round1Receive
    \/ Round1Timeout
    \/ Round2Receive
    \/ Round2Timeout
    \/ DeadlineFires
    \/ \E r \in Rounds, p \in Providers, out \in CallOutcomes : ProviderCall(r, p, out)
    \/ \E r \in Rounds, p \in Providers : Send(r, p)
    \/ \E r \in Rounds, p \in Providers : Close(r, p)

Spec == Init /\ [][Next]_vars

\* ======================================================== properties
\* The slots of the request being served: slot i (from 1) is bound to
\* configs[(i - 1) mod len(configs)].
Slots ==
    [i \in 1..(count + offset) |->
        contentConfigs[((i - 1) % Len(contentConfigs)) + 1]]
\* Service.GetContent got past its parameter check and the slot expansion.
Dispatched == pc # "idle" /\ count > 0 /\ Len(contentConfigs) > 0
\* Every provider call made so far returned at least the demanded items.
Healthy == \A r \in Rounds, p \in Providers : task[r][p].ret \in {"none", "ok", "extra"}
\* Slot i holds an error / an item at the moment.
Failed(i) == responses[i].err # NoErr
\* The first slot holding an error, Len + 1 when there is none.
FirstFailed ==
    IF \E i \in DOMAIN responses : Failed(i)
    THEN CHOOSE i \in DOMAIN responses : Failed(i) /\ \A j \in 1..(i - 1) : ~Failed(j)
    ELSE Len(responses) + 1
\* The round-1 call of slot i's primary provider returned an error.
PrimaryFailed(i) == task[1][Slots[i].Type].ret = "fail"
\* Slot i failed in round 1 and has no fallback.
Unrecoverable(i) == PrimaryFailed(i) /\ Slots[i].Fallback = NoFallback

\* C1: with count > 0, offset >= 0, every provider call successful with at
\* least the demanded items and no deadline fired, GetContent returns exactly
\* count items and result[i].Source = configs[(offset+i) mod len(configs)].Type.
C1_HealthyOrder ==
    (Dispatched /\ pc \in {"done", "panicked"} /\ Healthy /\ ~ctxDone)
    => /\ result.kind = "ok"
       /\ httpStatus = 200
       /\ Len(result.items) = count
       /\ \A i \in 0..(count - 1) :
             result.items[i + 1].Source =
                contentConfigs[((offset + i) % Len(contentConfigs)) + 1].Type

C1_Witness ==
    /\ pc = "done" /\ result.kind = "ok" /\ Healthy /\ ~ctxDone
    /\ count = 2 /\ offset = 1
    /\ Len(contentConfigs) = 2
    /\ contentConfigs[1].Type # contentConfigs[2].Type

\* C2: in one request each provider is started exactly once in round 1 if some
\* slot in [0, count+offset) has it as primary and not at all in round 1
\* otherwise, at most once more in round 2, and is never invoked more than
\* twice; a request that returns a response has invoked every primary once.
C2_CallBound ==
    Dispatched =>
        \A p \in Providers :
            /\ launched[1][p] = IF \E i \in DOMAIN Slots : Slots[i].Type = p THEN 1 ELSE 0
            /\ launched[2][p] \in {0, 1}
            /\ calls[p] <= launched[1][p] + launched[2][p]
            /\ calls[p] <= 2
            /\ (result.kind = "ok" /\ launched[1][p] = 1) => task[1][p].ret # "none"

C2_Witness ==
    /\ pc = "done" /\ result.kind = "ok"
    /\ \E p \in Providers : calls[p] = 2
    /\ \E p \in Providers : launched[1][p] = 0 /\ launched[2][p] = 0

\* C3: when no provider call fails (every round-1 fetch yields its full
\* demand), no round-2 fetch is started and every provider is invoked at most
\* once.
C3_NoFallbackWhenHealthy ==
    (Dispatched /\ \A p \in Providers : task[1][p].ret \in {"none", "ok", "extra"})
    => \A p \in Providers : launched[2][p] = 0 /\ calls[p] <= 1

C3_Witness ==
    /\ pc = "done" /\ result.kind = "ok"
    /\ \A p \in Providers : task[1][p].ret \in {"ok", "extra"} /\ calls[p] = 1
    /\ \E i \in DOMAIN Slots : Slots[i].Fallback # NoFallback

\* C4: if slot i (the first failed one) failed in round 1 and has no fallback,
\* and every slot before it holds an item, the response is the items of the
\* slots [offset, i): its length is max(0, i - offset), and with offset >= i
\* it is the empty list, returned as success.
C4_TruncateAtUnrecoverable ==
    (Dispatched /\ result.kind = "ok")
    => \A f \in DOMAIN responses :
          (f = FirstFailed /\ Unrecoverable(f))
          => /\ httpStatus = 200
             /\ Len(result.items) = (IF f - 1 > offset THEN f - 1 - offset ELSE 0)
             /\ \A k \in 1..Len(result.items) :
                   result.items[k] = responses[offset + k].item

C4_Witness ==
    /\ Dispatched /\ pc = "done" /\ result.kind = "ok"
    /\ Len(responses) = 2
    /\ FirstFailed = 2 /\ Unrecoverable(2)
    /\ offset = 0 /\ Len(result.items) = 1
    /\ PrimaryFailed(1)

C4_WitnessEmpty ==
    /\ Dispatched /\ pc = "done" /\ result.kind = "ok" /\ httpStatus = 200
    /\ Len(responses) = 3
    /\ FirstFailed = 2 /\ Unrecoverable(2)
    /\ offset = 2 /\ result.items = <<>>

\* C5 (as claimed): if slot i fails in round 1 and the round-2 fetch of its
\* fallback F succeeds, slot i ends with an item whose Source is F.
C5_FallbackSourceAnySlot ==
    (Dispatched /\ result.kind = "ok")
    => \A i \in DOMAIN Slots :
          (/\ PrimaryFailed(i)
           /\ Slots[i].Fallback # NoFallback
           /\ task[2][Slots[i].Fallback].ret \in {"ok", "extra"})
          => responses[i].err = NoErr /\ responses[i].item.Source = Slots[i].Fallback

\* C5 (amended): if slot i fails in round 1, no slot before it failed in
\* round 1 without having a fallback, and the round-2 fetch of its fallback F
\* succeeds, slot i ends with an item whose Source is F; when no earlier slot
\* is unresolved and i >= offset that item is the response's item i - offset.
C5_FallbackSource ==
    (Dispatched /\ result.kind = "ok")
    => \A i \in DOMAIN Slots :
          (/\ PrimaryFailed(i)
           /\ \A j \in 1..(i - 1) : ~Unrecoverable(j)
           /\ Slots[i].Fallback # NoFallback
           /\ task[2][Slots[i].Fallback].ret \in {"ok", "extra"})
          => /\ responses[i].err = NoErr
             /\ responses[i].item.Source = Slots[i].Fallback
             /\ ((\A j \in 1..(i - 1) : ~Failed(j)) /\ i > offset)
                => /\ Len(result.items) >= i - offset
                   /\ result.items[i - offset] = responses[i].item

C5_Witness ==
    /\ Dispatched /\ pc = "done" /\ result.kind = "ok"
    /\ offset = 1 /\ count = 2
    /\ PrimaryFailed(2) /\ ~PrimaryFailed(1)
    /\ Slots[2].Fallback # NoFallback /\ Slots[2].Fallback # Slots[2].Type
    /\ task[2][Slots[2].Fallback].ret = "ok"
    /\ result.items[1].Source = Slots[2].Fallback

\* C6 (as claimed): once the deadline has fired while a slot result of the
\* round in flight is still to be collected, the coordinator collects no
\* further slot result and does not return a successful response.
C6_NoProgressAfterDeadline ==
    [][(ctxDone /\ pc \in {"wait1", "wait2"})
        => (responses' = responses /\ result'.kind # "ok")]_vars

\* ---- the response computed from the provider outcomes alone, slot by slot,
\* ---- with no channels, goroutines or deadline
\* What the k-th slot waiting on provider p gets from a call for n items that
\* ended with outcome out.
Served(p, out, n, k) ==
    CASE out \in {"ok", "extra"} -> ItemResponse(Item(p, k))
      [] out = "shortcap" ->
            IF k <= n - 1 THEN ItemResponse(Item(p, k)) ELSE ItemResponse(NilItem)
      [] out = "fail" ->
            IF k = 1 THEN ErrResponse(ErrProvider) ELSE ErrResponse(ErrNotEnough)
      [] OTHER -> NoResponse

RefRound1 ==
    [i \in DOMAIN Slots |->
        LET p == Slots[i].Type
        IN  Served(p, task[1][p].ret,
                   Cardinality({j \in DOMAIN Slots : Slots[j].Type = p}),
                   Cardinality({j \in 1..i : Slots[j].Type = p}))]

RefStop ==
    LET bad == {i \in DOMAIN Slots :
                    RefRound1[i].err # NoErr /\ Slots[i].Fallback = NoFallback}
    IN  IF bad = {} THEN Len(Slots) + 1
        ELSE CHOOSE i \in bad : \A j \in bad : i <= j

RefTallied == {i \in 1..(RefStop - 1) : RefRound1[i].err # NoErr}

RefFinal ==
    [i \in DOMAIN Slots |->
        IF i \in RefTallied
        THEN LET f == Slots[i].Fallback
             IN  Served(f, task[2][f].ret,
                        Cardinality({j \in RefTallied : Slots[j].Fallback = f}),
                        Cardinality({j \in RefTallied : j <= i /\ Slots[j].Fallback = f}))
        ELSE RefRound1[i]]

RefCut ==
    LET bad == {i \in DOMAIN Slots : RefFinal[i].err # NoErr}
    IN  IF bad = {} THEN Len(Slots) + 1
        ELSE CHOOSE i \in bad : \A j \in bad : i <= j

RefResponse ==
    [k \in 1..(IF RefCut - 1 > offset THEN RefCut - 1 - offset ELSE 0) |->
        RefFinal[offset + k].item]

\* C7: the outcome is all-or-nothing with respect to the deadline: a timeout
\* carries no items, and every successful response is the response the same
\* provider outcomes give with no deadline.
C7_AllOrNothing ==
    /\ result.kind = "timeout" => (result.items = <<>> /\ httpStatus = 500)
    /\ (Dispatched /\ result.kind = "ok") => result.items = RefResponse

C7_Witness ==
    /\ result.kind = "timeout"
    /\ Len(responses) = 3
    /\ responses[1].err = NoErr /\ responses[2].err = NoErr

C7_WitnessLate ==
    /\ result.kind = "ok" /\ ctxDone /\ Len(result.items) = 2
      /\ launched[2][Provider1] = 1

\* C8 (as claimed): NewService fails whenever a Type or a Fallback of configs
\* has no client, so a request on a constructed service never reaches the
\* missing-client panic of getPromiseForProvider.
C8_ConstructionChecksAll ==
    /\ svc = "ok" =>
          \A k \in DOMAIN contentConfigs :
              /\ contentConfigs[k].Type \in clients
              /\ contentConfigs[k].Fallback \in clients \cup {NoFallback}
    /\ ~(pc = "panicked" /\ Len(contentConfigs) > 0)

\* C9: a request whose count is missing, not an integer or <= 0, or whose
\* offset is not an integer or negative, gets status 400 and no provider is
\* started or invoked for it; every other request passes validation with the
\* numbers its parameters denote (an absent offset being 0).
GoodCount(s) == \E n \in 1..9 : s = <<Digit(n)>>
GoodOffset(s) == s = <<>> \/ \E n \in 0..9 : s = <<Digit(n)>>
C9_ValidationBeforeDispatch ==
    pc # "idle" =>
        IF GoodCount(query.count) /\ GoodOffset(query.offset)
        THEN /\ httpStatus # 400
             /\ query.count = <<Digit(count)>>
             /\ IF query.offset = <<>> THEN offset = 0 ELSE query.offset = <<Digit(offset)>>
        ELSE /\ httpStatus = 400
             /\ pc = "done"
             /\ result = NoResult
             /\ \A p \in Providers :
                   calls[p] = 0 /\ \A r \in Rounds : launched[r][p] = 0 /\ task[r][p] = NoTask

C9_Witness ==
    /\ httpStatus = 400
    /\ query.count = <<"0">>
    /\ query.offset = <<"1">>

\* C10 (as claimed): when a provider call returns fewer items than demanded,
\* the slots that cannot be served get a failure outcome and the request
\* completes normally: the process does not abort and no slot without an
\* error holds a nil item.
C10_UnderDeliveryContained ==
    /\ ~crashed
    /\ \A i \in DOMAIN responses :
          responses[i].err = NoErr => responses[i].item # NilItem

\* C11 (as claimed): a provider call that returns an error never becomes an
\* error of the request: whatever providers fail, a request whose deadline
\* did not fire ends with a 200 response, and GetContent returns an error only
\* for an invalid count or offset or a fired deadline.
C11_ProviderErrorsContained ==
    /\ (/\ Dispatched
        /\ pc \in {"done", "panicked"}
        /\ ~ctxDone
        /\ \A r \in Rounds, p \in Providers :
              task[r][p].ret \in {"none", "ok", "extra", "fail"})
       => (result.kind = "ok" /\ httpStatus = 200)
    /\ result.kind \in {"invalid", "timeout"} => (ctxDone \/ count <= 0 \/ offset < 0)

\* ------------------------------------------------------------- fairness
\* The Go scheduler runs every runnable goroutine: the coordinator blocked in
\* a select whose ctx.Done case is ready returns, and a fetch goroutine whose
\* provider call has returned sends and closes. Nothing makes a provider call
\* return, and nothing makes the deadline fire.
FairSpec ==
    /\ Spec
    /\ WF_vars(Round1Receive)
    /\ WF_vars(Round2Receive)
    /\ WF_vars(Round1Timeout)
    /\ WF_vars(Round2Timeout)
    /\ \A r \in Rounds, p \in Providers : WF_vars(Send(r, p)) /\ WF_vars(Close(r, p))

\* No provider call of the request has returned yet.
Unanswered ==
    \A r \in Rounds, p \in Providers : task[r][p].st \in {"none", "spawned"}

C13_InterleavingIndependent ==
    (Dispatched /\ result.kind = "ok" /\ ~ctxDone)
    => /\ responses = RefFinal
       /\ FirstFailed = RefCut
       /\ Len(result.items) = (IF RefCut - 1 > offset THEN RefCut - 1 - offset ELSE 0)
       /\ \A k \in 1..Len(result.items) : result.items[k] = RefFinal[offset + k].item

C13_Witness ==
    /\ Dispatched /\ pc = "done" /\ result.kind = "ok" /\ ~ctxDone
    /\ count = 2 /\ offset = 0
    /\ Slots[1].Type # Slots[2].Type
    /\ PrimaryFailed(1)
    /\ Slots[1].Fallback # NoFallback
    /\ task[2][Slots[1].Fallback].ret = "ok"
    /\ Len(result.items) = 2
    /\ result.items[1].Source # result.items[2].Source

\* C14: every fetch is sized to the exact unmet demand: the round-1 call to
\* provider P asks for the number of slots whose Type is P, the round-2 call
\* to provider F asks for the number of slots that failed in round 1, have
\* Fallback F and lie before the first failed slot without fallback, and no
\* fetch is started with a demand of 0.
C14_ExactDemand ==
    Dispatched =>
        \A p \in Providers :
            /\ task[1][p].st # "none" =>
                  /\ task[1][p].demand = Cardinality({i \in DOMAIN Slots : Slots[i].Type = p})
                  /\ task[1][p].demand > 0
            /\ task[2][p].st # "none" =>
                  /\ task[2][p].demand =
                        Cardinality({i \in DOMAIN Slots :
                                        /\ PrimaryFailed(i)
                                        /\ Slots[i].Fallback = p
                                        /\ \A j \in 1..(i - 1) : ~Unrecoverable(j)})
                  /\ task[2][p].demand > 0

C14_Witness ==
    /\ Dispatched /\ pc = "done" /\ result.kind = "ok"
    /\ \E p, q \in Providers :
          /\ task[1][q].demand = 1
          /\ task[1][p].demand = 2
          /\ task[2][p].demand = 2
          /\ task[2][p].ret = "ok"

\* The slots waiting on provider p in round r: in round 1 those whose Type is
\* p, in round 2 the tallied ones whose Fallback is p.
Waiting(r, p) ==
    IF r = 1 THEN {i \in DOMAIN Slots : Slots[i].Type = p}
    ELSE {i \in DOMAIN Slots :
             /\ PrimaryFailed(i)
             /\ Slots[i].Fallback = p
             /\ \A j \in 1..(i - 1) : ~Unrecoverable(j)}
\* The position of slot i among the slots waiting on p in round r.
Rank(r, p, i) == Cardinality({j \in Waiting(r, p) : j <= i})

\* C15: within a provider's batch in a round, the k-th item the provider
\* returned is bound to the k-th slot, in slot order, waiting on that provider
\* in that round; an item beyond the demand is never sent and never bound to
\* a slot.
C15_BatchOrder ==
    Dispatched =>
        /\ \A i \in DOMAIN responses :
              (responses[i].err = NoErr /\ responses[i].item # NilItem)
              => LET r == IF PrimaryFailed(i) THEN 2 ELSE 1
                     p == IF r = 1 THEN Slots[i].Type ELSE Slots[i].Fallback
                 IN  /\ i \in Waiting(r, p)
                     /\ responses[i].item = Item(p, Rank(r, p, i))
                     /\ responses[i].item.ID <= task[r][p].demand
        /\ \A r \in Rounds, p \in Providers :
              /\ \A k \in DOMAIN task[r][p].buf : task[r][p].buf[k].item.ID <= task[r][p].demand
              /\ \A k \in DOMAIN task[r][p].pending :
                    task[r][p].pending[k].item.ID <= task[r][p].demand

C15_Witness ==
    /\ Dispatched /\ pc = "done" /\ result.kind = "ok"
    /\ Len(responses) = 3
    /\ Slots[1].Type # Slots[2].Type
    /\ task[1][Slots[1].Type].ret = "extra"
    /\ responses[3].item = Item(Slots[1].Type, 2)
    /\ PrimaryFailed(2) /\ responses[2].err = NoErr

\* ---- a coordinator without the early exit: it requests the fallback of
\* ---- every failed slot that has one
\* The providers behave as b: b[p] = "fail" when p always fails, "ok" when p
\* returns the n-prefix of its item sequence Item(p, 1), Item(p, 2), ...
Behaviours == [Providers -> {"ok", "fail"}]
BehavesAs(b) == \A r \in Rounds, p \in Providers : task[r][p].ret \in {"none", b[p]}

FullRound1(b) ==
    [i \in DOMAIN Slots |->
        LET p == Slots[i].Type
        IN  Served(p, b[p], Cardinality({j \in DOMAIN Slots : Slots[j].Type = p}),
                   Cardinality({j \in 1..i : Slots[j].Type = p}))]

FullTallied(b) ==
    {i \in DOMAIN Slots : FullRound1(b)[i].err # NoErr /\ Slots[i].Fallback # NoFallback}

FullFinal(b) ==
    [i \in DOMAIN Slots |->
        IF i \in FullTallied(b)
        THEN LET f == Slots[i].Fallback
             IN  Served(f, b[f],
                        Cardinality({j \in FullTallied(b) : Slots[j].Fallback = f}),
                        Cardinality({j \in FullTallied(b) : j <= i /\ Slots[j].Fallback = f}))
        ELSE FullRound1(b)[i]]

\* Its response: it panics like getPromiseForProvider when a requested
\* fallback has no client, else it assembles the response in the same way.
FullResponse(b) ==
    IF \E i \in FullTallied(b) : Slots[i].Fallback \notin clients
    THEN [kind |-> "panic", items |-> <<>>]
    ELSE [kind |-> "ok", items |-> Assemble(FullFinal(b), offset)]

ListingSlots(m) ==
    [i \in 1..m |-> contentConfigs[((i - 1) % Len(contentConfigs)) + 1]]

ListingRound1(b, m) ==
    [i \in 1..m |->
        LET p == ListingSlots(m)[i].Type
        IN  Served(p, b[p], Cardinality({j \in 1..m : ListingSlots(m)[j].Type = p}),
                   Cardinality({j \in 1..i : ListingSlots(m)[j].Type = p}))]

ListingTallied(b, m) ==
    {i \in 1..m :
        /\ ListingRound1(b, m)[i].err # NoErr
        /\ \A j \in 1..i : ListingRound1(b, m)[j].err # NoErr
                              => ListingSlots(m)[j].Fallback # NoFallback}

ListingFinal(b, m) ==
    [i \in 1..m |->
        IF i \in ListingTallied(b, m)
        THEN LET f == ListingSlots(m)[i].Fallback
             IN  Served(f, b[f],
                        Cardinality({j \in ListingTallied(b, m) : ListingSlots(m)[j].Fallback = f}),
                        Cardinality({j \in ListingTallied(b, m) :
                                        j <= i /\ ListingSlots(m)[j].Fallback = f}))
        ELSE ListingRound1(b, m)[i]]

Listing(b, m) ==
    IF \E i \in ListingTallied(b, m) : ListingSlots(m)[i].Fallback \notin clients
    THEN [kind |-> "panic", items |-> <<>>]
    ELSE [kind |-> "ok", items |-> Assemble(ListingFinal(b, m), 0)]

IsPrefix(s, t) == Len(s) <= Len(t) /\ \A k \in 1..Len(s) : s[k] = t[k]
\* The items of s at the absolute positions [o, o + c), from 0.
Positions(s, o, c) ==
    IF o >= Len(s) THEN <<>>
    ELSE SubSeq(s, o + 1, IF o + c < Len(s) THEN o + c ELSE Len(s))

MaxListing == MaxCount + MaxOffset

\* C17 (as claimed): with providers that always fail or return the n-prefix
\* of a fixed sequence, and no deadline firing, GetContent(n, 0) is a prefix
\* of GetContent(m, 0) for all 0 < n <= m, and GetContent(count, offset)
\* returns exactly the items at the positions [offset, offset + count) of
\* every longer listing GetContent(m, 0).
C17_PaginationConsistent ==
    (Dispatched /\ result.kind = "ok" /\ ~ctxDone)
    => \A b \in Behaviours :
          BehavesAs(b)
          => /\ \A m \in (count + offset)..MaxListing :
                   /\ Listing(b, m).kind = "ok"
                   /\ result.items = Positions(Listing(b, m).items, offset, count)
             /\ \A n \in 1..MaxListing, m \in 1..MaxListing :
                   (n <= m /\ Listing(b, n).kind = "ok")
                   => /\ Listing(b, m).kind = "ok"
                      /\ IsPrefix(Listing(b, n).items, Listing(b, m).items)

\* Some fetch task has its provider's answer and has not closed its channel
\* yet. A task is in this state once at most, so "whenever some task is
\* handing over, a moment comes when none is" says every task gets done.
Handing == \E r \in Rounds, p \in Providers : task[r][p].st = "sending"

\* C18: a fetch task never blocks on handing over its results: what it has
\* still to send always fits into the free space of its channel of capacity
\* demand (one error, or at most demand items), so once the provider call has
\* returned the task closes its channel unless the process dies, also after
\* the coordinator has returned on the deadline; the deadline firing and the
\* coordinator's timeout leave every fetch task as it is, and nothing
\* delivered after the timeout changes the response.
C18_FetchNeverBlocks ==
    /\ [](\A r \in Rounds, p \in Providers :
             /\ Len(task[r][p].pending) + Len(task[r][p].buf) <= task[r][p].demand
             /\ task[r][p].ret = "fail" =>
                   Len(task[r][p].pending) + Len(task[r][p].buf) <= 1)
    /\ [][(ctxDone' # ctxDone \/ (result'.kind = "timeout" /\ result.kind # "timeout"))
             => task' = task]_vars
    /\ [][result.kind = "timeout"
             => (result' = result /\ httpStatus' = httpStatus /\ responses' = responses)]_vars
    /\ Handing ~> (~Handing \/ crashed)

C18_Witness ==
    /\ pc = "done" /\ result.kind = "timeout" /\ httpStatus = 500
    /\ Len(responses) >= 1 /\ responses[1].err = "unset"
    /\ \E p \in Providers :
          /\ task[1][p].st = "closed"
          /\ task[1][p].ret = "extra"
          /\ task[1][p].demand = 2
          /\ Len(task[1][p].buf) = 2

\* Slot i was tallied for round 2 and the round-2 fetch of its fallback failed.
FallbackFailed(i) ==
    /\ i \in Waiting(2, Slots[i].Fallback)
    /\ task[2][Slots[i].Fallback].ret = "fail"

\* C19: a slot whose fallback fetch fails in round 2 keeps a failure outcome
\* and no third round is attempted (its fallback was fetched once in round 2):
\* the response ends before that slot even if later slots hold items, so no
\* slot after it, served by another fallback or not, appears in the response.
C19_Round2FailureFinal ==
    (Dispatched /\ result.kind = "ok")
    => \A i \in DOMAIN Slots :
          (Slots[i].Fallback # NoFallback /\ FallbackFailed(i))
          => /\ Failed(i)
             /\ launched[2][Slots[i].Fallback] = 1
             /\ calls[Slots[i].Fallback] <= launched[1][Slots[i].Fallback] + 1
             /\ Len(result.items) <= (IF i - 1 > offset THEN i - 1 - offset ELSE 0)
             /\ i = FirstFailed =>
                   Len(result.items) = (IF i - 1 > offset THEN i - 1 - offset ELSE 0)
             /\ \A k \in 1..Len(result.items) : result.items[k] = responses[offset + k].item

C19_Witness ==
    /\ Dispatched /\ pc = "done" /\ result.kind = "ok"
    /\ count = 2 /\ offset = 0
    /\ Slots[1].Fallback # NoFallback /\ Slots[2].Fallback # NoFallback
    /\ Slots[1].Fallback # Slots[2].Fallback
    /\ FallbackFailed(1)
    /\ PrimaryFailed(2) /\ task[2][Slots[2].Fallback].ret = "ok"
    /\ responses[2].err = NoErr
    /\ result.items = <<>>

\* Round 2 has nothing to write to slot i: the slot got its item in round 1,
\* or it lies at or after the first failed slot without fallback.
NotTallied(i) == ~PrimaryFailed(i) \/ \E j \in 1..i : Unrecoverable(j)

\* C20: round 2 overwrites only the slots it tallied: no step of the second
\* pass changes a slot that obtained an item in round 1 or that lies at or
\* after the first failed slot without fallback, so these slots end with
\* exactly their round-1 outcome.
C20_Round2Frame ==
    /\ [][pc = "wait2"
             => \A i \in DOMAIN responses : NotTallied(i) => responses'[i] = responses[i]]_vars
    /\ []((Dispatched /\ (pc = "wait2" \/ result.kind = "ok"))
             => \A i \in DOMAIN responses : NotTallied(i) => responses[i] = RefRound1[i])

C20_Witness ==
    /\ Dispatched /\ pc = "done" /\ result.kind = "ok"
    /\ Len(responses) = 2
    /\ PrimaryFailed(1) /\ responses[1].err = NoErr
    /\ ~PrimaryFailed(2)
    /\ responses[1].item.Source = Slots[2].Type
    /\ responses[2].item = Item(Slots[2].Type, 1)

C20_WitnessAfterStop ==
    /\ Dispatched /\ pc = "done" /\ result.kind = "ok"
    /\ Len(responses) = 3
    /\ PrimaryFailed(1) /\ responses[1].err = NoErr
    /\ Unrecoverable(2)
    /\ PrimaryFailed(3) /\ Slots[3].Fallback # NoFallback
    /\ responses[3].err = ErrNotEnough

\* ------------------------------------------- the assembler on its own
\* Service.GetContent from the return of getConfigResponses on, applied to
\* every sequence of count + offset final slot outcomes: slot i holds an item
\* of some provider (numbered by the slot) or one of the two errors.
SlotOutcomes(i) ==
    {ItemResponse(Item(p, i)) : p \in Providers}
        \cup {ErrResponse(ErrProvider), ErrResponse(ErrNotEnough)}

RECURSIVE OutcomeSeqs(_)
OutcomeSeqs(n) ==
    IF n = 0 THEN {<<>>}
    ELSE {Append(s, x) : s \in OutcomeSeqs(n - 1), x \in SlotOutcomes(n)}

AssembleInit ==
    /\ clients = Providers
    /\ contentConfigs = <<[Type |-> Provider1, Fallback |-> NoFallback]>>
    /\ svc = "ok"
    /\ count \in 1..MaxCount
    /\ offset \in 0..MaxOffset
    /\ query = [count |-> <<Digit(count)>>, offset |-> <<Digit(offset)>>]
    /\ pc = "collected"
    /\ slot = 0
    /\ ctxDone = FALSE
    /\ responses \in OutcomeSeqs(count + offset)
    /\ task = [r \in Rounds |-> [p \in Providers |-> NoTask]]
    /\ launched = [r \in Rounds |-> [p \in Providers |-> 0]]
    /\ calls = [p \in Providers |-> 0]
    /\ result = NoResult
    /\ httpStatus = 0
    /\ crashed = FALSE

\* The loop over responses, the offset window and the handler's 200.
AssembleResponses ==
    /\ pc = "collected"
    /\ ReturnItems(responses)
    /\ UNCHANGED <<clients, contentConfigs, svc, query, count, offset, ctxDone,
                   responses, task, launched, calls, crashed>>

AssembleNext == AssembleResponses

AssembleSpec == AssembleInit /\ [][AssembleNext]_vars

\* C21: for every sequence of count + offset final slot outcomes, with f the
\* index (from 0) of the first failed slot, count + offset when none failed,
\* the response is the items of the slots [offset, f) in slot order: its
\* length is max(0, f - offset), at most count, exactly count iff
\* f = count + offset, and no item of a slot at or after f is in it.
C21_AssemblerWindow ==
    (result.kind = "ok" /\ count > 0 /\ Len(responses) = count + offset)
    => LET f == FirstFailed - 1
       IN  /\ Len(result.items) = (IF f > offset THEN f - offset ELSE 0)
           /\ Len(result.items) <= count
           /\ (Len(result.items) = count) <=> (f = count + offset)
           /\ \A k \in 1..Len(result.items) :
                 /\ offset + k <= f
                 /\ ~Failed(offset + k)
                 /\ result.items[k] = responses[offset + k].item
           /\ \A i \in (f + 1)..Len(responses), k \in 1..Len(result.items) :
                 (responses[i].err = NoErr /\ responses[i].item.ID = i)
                 => result.items[k] # responses[i].item

C21_Witness ==
    /\ pc = "done" /\ result.kind = "ok"
    /\ count = 2 /\ offset = 1
    /\ Len(responses) = 3
    /\ ~Failed(1) /\ ~Failed(2) /\ Failed(3)
    /\ Len(result.items) = 1
    /\ result.items[1] = responses[2].item

C21_WitnessLaterItems ==
    /\ pc = "done" /\ result.kind = "ok"
    /\ count = 2 /\ offset = 2
    /\ Len(responses) = 4
    /\ Failed(1) /\ ~Failed(2) /\ ~Failed(3) /\ ~Failed(4)
    /\ result.items = <<>>

\* The documented worst case: configs [A (no fallback), B (fallback A)], the
\* request covers at least two slots, every call to A returned at least the
\* demanded items and the call to B returned an error.
WorstCase ==
    /\ Len(contentConfigs) = 2
    /\ contentConfigs[1].Fallback = NoFallback
    /\ contentConfigs[2].Type # contentConfigs[1].Type
    /\ contentConfigs[2].Fallback = contentConfigs[1].Type
    /\ count + offset >= 2
    /\ \A r \in Rounds : task[r][contentConfigs[1].Type].ret \in {"none", "ok", "extra"}
    /\ \A r \in Rounds : task[r][contentConfigs[2].Type].ret \in {"none", "fail"}

\* C22: in the documented worst case a request that returns its response has
\* made exactly two calls to A (one primary, one as fallback for B's slots)
\* and exactly one call to B, and every B slot holds an item from A.
C22_WorstCaseTwoCalls ==
    (Dispatched /\ result.kind = "ok" /\ WorstCase)
    => LET A == contentConfigs[1].Type
           B == contentConfigs[2].Type
       IN  /\ calls[A] = 2 /\ launched[1][A] = 1 /\ launched[2][A] = 1
           /\ calls[B] = 1 /\ launched[1][B] = 1 /\ launched[2][B] = 0
           /\ task[2][A].demand = Cardinality({i \in DOMAIN Slots : Slots[i].Type = B})
           /\ \A i \in DOMAIN Slots :
                 Slots[i].Type = B
                 => /\ responses[i].err = NoErr
                    /\ responses[i].item.Source = A
           /\ Len(result.items) = count

C22_Witness ==
    /\ Dispatched /\ pc = "done" /\ result.kind = "ok" /\ WorstCase
    /\ count = 2 /\ offset = 2
    /\ calls[contentConfigs[1].Type] = 2
    /\ calls[contentConfigs[2].Type] = 1
    /\ responses[2].item = Item(contentConfigs[1].Type, 1)
    /\ responses[4].item = Item(contentConfigs[1].Type, 2)

\* C23 (as claimed): every service NewService returns has a non-empty
\* configuration list, so a request that passes validation gets exactly
\* count + offset slots, slot i bound to configs[i mod len(configs)].
C23_NonEmptyConfiguration ==
    /\ svc = "ok" => Len(contentConfigs) > 0
    /\ (svc = "ok" /\ pc # "idle" /\ count > 0 /\ offset >= 0)
       => Len(responses) = count + offset
====
